---- MODULE Spec2Model ----
(***************************************************************************)
(* Model of the code store of the code-distributor bot (src/storage.py)    *)
(* and of the handlers that call it (src/bot.py).                          *)
(*                                                                         *)
(* The codes table lives in one SQLite database.  A call of a Storage      *)
(* method is a coroutine; every `await` is a point where other coroutines  *)
(* (and other processes that opened the same database) can run, so every   *)
(* awaited database statement is one action.  SQLite admits one write      *)
(* transaction at a time (dbWriter); what the write transaction of p has   *)
(* written is in txn[p] until its commit publishes it to codes/seq, which  *)
(* is what every other connection reads.  Each Storage object owns one     *)
(* asyncio.Lock (lock[s]).                                                 *)
(*                                                                         *)
(* Specifications: Spec (direct callers of one Storage object), SpecBurst  *)
(* (a burst of allocations), SpecShared (allocate, reset and clear through *)
(* one or two Storage objects), SpecBot (two chat updates and their        *)
(* handlers), SpecUsage (/yongliang beside /fa or /chongzhi), SpecFail     *)
(* (statements may raise) and SpecLive (SpecFail under fair scheduling).   *)
(***************************************************************************)
EXTENDS Integers, Sequences, FiniteSets, TLC

\* ------------------------------------------------------------------ bounds
\* Code values operators upload.
Values == {"A1", "A2"}
\* Operator identities (uploaded_by / used_by).
Users == {1, 2}
\* Concurrently running request handlers.
Procs == {1, 2}
\* Storage objects open on the same database file.
Instances == {1, 2}
\* Longest uploaded batch.
MaxBatch == 2
\* insert_codes calls start while the AUTOINCREMENT counter, with the rows
\* the started calls are about to create, stays within MaxId.
MaxId == 2
\* Largest reading of the wall clock.
MaxClock == 1

\* SQL NULL / Python None (nullable columns, Optional results).
NULL == -1
\* Python None where a str is expected (Optional[str]).
None == "None"
\* fetchone() found no row.
NoRow == [id |-> NULL, code |-> None]
\* No holder of a lock.
NoProc == 0
\* A connection outside a write transaction.
NoTxn == [rows |-> <<>>, seq |-> NULL]
\* What cmd_usage has fetched so far.
NoReport == [counts_total |-> <<>>, counts_today |-> <<>>,
             grand_total |-> NULL, grand_today |-> NULL]
\* A process that serves no chat update (a direct caller of Storage).
NoEvent == [handler |-> None, private |-> FALSE, stage |-> "done",
            reply |-> None, report |-> NoReport]

VARIABLES
    codes,      \* committed rows of table codes, in id order
    seq,        \* committed AUTOINCREMENT counter of table codes
    txn,        \* txn[p]: working copy [rows, seq] of p's open write transaction
    dbWriter,   \* process holding SQLite's write lock, or NoProc
    lock,       \* lock[s]: process holding Storage s's asyncio.Lock, or NoProc
    inst,       \* inst[p]: the Storage object process p calls
    sender,     \* sender[p]: the operator whose requests process p serves
    clock,      \* datetime.now(timezone.utc)
    pc,         \* pc[p]: where process p is in its call
    loc,        \* loc[p]: the local variables of p's call
    issued,     \* history: rows allocated since the last reset/clear commit
    start,      \* history: the table and number of callers when a burst began
    users,      \* committed rows of table users, by user_id
    ev          \* ev[p]: the chat update p's handler is serving, and its progress

vars == <<codes, seq, txn, dbWriter, lock, inst, sender, clock, pc, loc, issued, start, users, ev>>

\* ------------------------------------------------------------ table codes
\* A row of table codes (CREATE TABLE codes).
Row(id, code, is_used, uploaded_by, uploaded_at, used_by, used_at) ==
    [id |-> id, code |-> code, is_used |-> is_used,
     uploaded_by |-> uploaded_by, uploaded_at |-> uploaded_at,
     used_by |-> used_by, used_at |-> used_at]

RowsOf(rows) == {rows[i] : i \in 1..Len(rows)}

\* The loop that de-duplicates the incoming batch, preserving order.
RECURSIVE DedupFrom(_, _)
DedupFrom(cs, unique) ==
    IF cs = <<>> THEN unique
    ELSE DedupFrom(Tail(cs),
                   IF \E i \in 1..Len(unique) : unique[i] = Head(cs)
                   THEN unique
                   ELSE Append(unique, Head(cs)))

Dedup(cs) == DedupFrom(cs, <<>>)

\* INSERT OR IGNORE INTO codes (code, is_used, uploaded_by, uploaded_at)
\* VALUES (?, 0, ?, ?): the UNIQUE constraint on code makes it a no-op when a
\* row with that code exists; otherwise the row gets the next AUTOINCREMENT id.
InsertOrIgnoreAlways(t, code, by, at) ==
    [rows |-> Append(t.rows, Row(t.seq + 1, code, 0, by, at, NULL, NULL)),
     seq  |-> t.seq + 1]

\* INSERT OR REPLACE in place of INSERT OR IGNORE: the row in conflict is
\* deleted and a fresh Unused one is appended.
InsertOrReplace(t, code, by, at) ==
    [rows |-> Append(SelectSeq(t.rows, LAMBDA r : r.code # code),
                     Row(t.seq + 1, code, 0, by, at, NULL, NULL)),
     seq  |-> t.seq + 1]

InsertOrIgnore(t, code, by, at) ==
    IF \E r \in RowsOf(t.rows) : r.code = code
    THEN t
    ELSE [rows |-> Append(t.rows, Row(t.seq + 1, code, 0, by, at, NULL, NULL)),
          seq  |-> t.seq + 1]

\* SELECT COUNT(*) FROM codes WHERE uploaded_at = ? AND uploaded_by = ?
CountUploaded(rows, at, by) ==
    Cardinality({r \in RowsOf(rows) : r.uploaded_at = at /\ r.uploaded_by = by})

\* SELECT COUNT(*) FROM codes WHERE is_used = 0
CountUnused(rows) == Cardinality({r \in RowsOf(rows) : r.is_used = 0})

\* SELECT COUNT(*) FROM codes WHERE is_used = 1
CountUsed(rows) == Cardinality({r \in RowsOf(rows) : r.is_used = 1})

\* SELECT id, code FROM codes WHERE is_used = 0 ORDER BY id ASC LIMIT 1
SelectNextUnusedLast(rows) ==
    LET unused == {r \in RowsOf(rows) : r.is_used = 0}
    IN  IF unused = {} THEN NoRow
        ELSE LET r == CHOOSE x \in unused : \A y \in unused : x.id >= y.id
             IN  [id |-> r.id, code |-> r.code]

\* The same query without WHERE is_used = 0.
SelectNextAny(rows) ==
    IF rows = <<>> THEN NoRow
    ELSE LET r == CHOOSE x \in RowsOf(rows) : \A y \in RowsOf(rows) : x.id <= y.id
         IN  [id |-> r.id, code |-> r.code]

SelectNextUnused(rows) ==
    LET unused == {r \in RowsOf(rows) : r.is_used = 0}
    IN  IF unused = {} THEN NoRow
        ELSE LET r == CHOOSE x \in unused : \A y \in unused : x.id <= y.id
             IN  [id |-> r.id, code |-> r.code]

\* UPDATE codes SET is_used = 1, used_by = ?, used_at = ?
\* WHERE id = ? AND is_used = 0
MarkUsedNotFlagged(rows, id, by, at) == rows

MarkUsedNotStamped(rows, id, by, at) ==
    [i \in 1..Len(rows) |->
        IF rows[i].id = id /\ rows[i].is_used = 0
        THEN [rows[i] EXCEPT !.is_used = 1, !.used_by = by]
        ELSE rows[i]]

MarkUsed(rows, id, by, at) ==
    [i \in 1..Len(rows) |->
        IF rows[i].id = id /\ rows[i].is_used = 0
        THEN [rows[i] EXCEPT !.is_used = 1, !.used_by = by, !.used_at = at]
        ELSE rows[i]]

\* UPDATE codes SET is_used = 0, used_by = NULL, used_at = NULL
\* WHERE is_used = 1
ResetUsedKeepStamp(rows) ==
    [i \in 1..Len(rows) |->
        IF rows[i].is_used = 1
        THEN [rows[i] EXCEPT !.is_used = 0]
        ELSE rows[i]]

ResetUsed(rows) ==
    [i \in 1..Len(rows) |->
        IF rows[i].is_used = 1
        THEN [rows[i] EXCEPT !.is_used = 0, !.used_by = NULL, !.used_at = NULL]
        ELSE rows[i]]

\* DELETE FROM codes (and the same with WHERE is_used = 0).
DeleteUnused(rows) == SelectSeq(rows, LAMBDA r : r.is_used = 1)

DeleteAll(rows) == <<>>

\* ------------------------------------------------ table users and reports
\* What Telegram tells about a user: full_name and the optional username.
DisplayName(u) == IF u = 1 THEN "Ann" ELSE IF u = 2 THEN "Bob" ELSE "Eve"

UserName(u) == IF u = 1 THEN "ann" ELSE None

\* INSERT INTO users ... ON CONFLICT(user_id) DO UPDATE: the table has one
\* row per user_id, written or overwritten.
UpsertRow(us, user_id, display_name, username) ==
    [u \in (DOMAIN us) \cup {user_id} |->
        IF u = user_id
        THEN [display_name |-> display_name, username |-> username]
        ELSE us[u]]

\* date(x) of SQLite: the calendar day of a timestamp.
TicksPerDay == 1

DayOf(t) == t \div TicksPerDay

\* The rows the reports look at: WHERE c.is_used = 1 AND c.used_by IS NOT
\* NULL, and for the daily report AND date(c.used_at) = date('now').
Stamped(rows) == {r \in RowsOf(rows) : r.is_used = 1 /\ r.used_by # NULL}

StampedOn(rows, day) ==
    {r \in Stamped(rows) : r.used_at # NULL /\ DayOf(r.used_at) = day}

\* FROM codes c LEFT JOIN users u ON u.user_id = c.used_by GROUP BY
\* c.used_by, u.display_name, u.username: one group per used_by (user_id
\* is the primary key of users), with NULL names when users has no row.
\* GroupsInnerJoin is the same query with JOIN instead of LEFT JOIN.
GroupsInnerJoin(rs, us) ==
    {[user_id |-> u,
      display_name |-> us[u].display_name,
      username |-> us[u].username,
      cnt |-> Cardinality({r \in rs : r.used_by = u})] :
        u \in {r.used_by : r \in rs} \cap DOMAIN us}

Groups(rs, us) ==
    {[user_id |-> u,
      display_name |-> IF u \in DOMAIN us THEN us[u].display_name ELSE None,
      username |-> IF u \in DOMAIN us THEN us[u].username ELSE None,
      cnt |-> Cardinality({r \in rs : r.used_by = u})] :
        u \in {r.used_by : r \in rs}}

\* ORDER BY cnt DESC: the groups in any order of non-increasing count.
OrderByCntDesc(gs) ==
    {sq \in [1..Cardinality(gs) -> gs] :
        /\ \A g \in gs : \E i \in 1..Cardinality(gs) : sq[i] = g
        /\ \A i, j \in 1..Cardinality(gs) : i < j => sq[i].cnt >= sq[j].cnt}

\* The results usage_counts_with_names and usage_counts_with_names_today
\* can fetch from the committed tables.
UsageCountsWithNames(rows, us) == OrderByCntDesc(Groups(Stamped(rows), us))

UsageCountsWithNamesToday(rows, us, day) ==
    OrderByCntDesc(Groups(StampedOn(rows, day), us))

\* SELECT COUNT(*) FROM codes WHERE is_used = 1 [AND date(used_at) = date('now')].
TotalUsedCount(rows) == CountUsed(rows)

TotalUsedToday(rows, day) ==
    Cardinality({r \in RowsOf(rows) :
        r.is_used = 1 /\ r.used_at # NULL /\ DayOf(r.used_at) = day})

\* ------------------------------------------------------------ call frames
\* The local variables of a call; Idle is a process between two calls.
\* Two fields are history: wrote (a commit of this call changed the committed
\* table) and rows_at_commit (the rows the table held when reset_all_codes
\* committed).
Idle ==
    [codes |-> <<>>, unique_codes |-> <<>>, i |-> 0, by |-> NULL,
     now_iso |-> NULL, code_row |-> NoRow, count |-> NULL, created |-> 0,
     ret |-> <<>>, wrote |-> FALSE, rows_at_commit |-> NULL]

\* Rows a batch of unique values would create in the table `rows`.
Missing(unique, rows) ==
    Cardinality({i \in 1..Len(unique) : \A r \in RowsOf(rows) : r.code # unique[i]})

\* Rows a started insert_codes call is still expected to create.
Pending(p) ==
    IF pc[p] = "ins_exec" THEN Missing(loc[p].unique_codes, codes) ELSE 0

RECURSIVE SumPending(_)
SumPending(S) ==
    IF S = {} THEN 0
    ELSE LET p == CHOOSE x \in S : TRUE IN Pending(p) + SumPending(S \ {p})

\* The batches the upload handlers pass on: they return before the call when
\* no code was found in the message.
Batches == UNION {[1..n -> Values] : n \in 1..MaxBatch}

\* ----------------------------------------------------------------- Init
Init ==
    /\ codes = <<>>
    /\ seq = 0
    /\ txn = [p \in Procs |-> NoTxn]
    /\ dbWriter = NoProc
    /\ lock = [s \in Instances |-> NoProc]
    /\ inst = [p \in Procs |-> 1]
    /\ sender \in {f \in [Procs -> Users] : f[1] = 1}
    /\ clock = 0
    /\ pc = [p \in Procs |-> "idle"]
    /\ loc = [p \in Procs |-> Idle]
    /\ issued = <<>>
    /\ start = [rows |-> <<>>, n |-> 0]
    /\ users = <<>>
    /\ ev = [p \in Procs |-> NoEvent]

\* datetime.now(timezone.utc): a reading t is not before the previous one,
\* and equals it when both fall within the clock's resolution.
ReadClock(t) ==
    /\ t \in clock..MaxClock
    /\ clock' = t

\* ------------------------------------------- the asyncio.Lock and BEGIN
\* `async with self._lock` on entry: a free lock is taken without yielding,
\* a held one suspends the caller.
EnterLock(p, held, waiting) ==
    IF lock[inst[p]] = NoProc
    THEN /\ lock' = [lock EXCEPT ![inst[p]] = p]
         /\ pc' = [pc EXCEPT ![p] = held]
    ELSE /\ pc' = [pc EXCEPT ![p] = waiting]
         /\ UNCHANGED lock

\* A suspended caller gets the lock once it is free.
AcquireLock(p, waiting, held) ==
    /\ pc[p] = waiting
    /\ lock[inst[p]] = NoProc
    /\ lock' = [lock EXCEPT ![inst[p]] = p]
    /\ pc' = [pc EXCEPT ![p] = held]

\* BEGIN IMMEDIATE: the connection waits for SQLite's write lock and then
\* works on the committed table.
BeginImmediateNoLock(p) ==
    /\ dbWriter' = p
    /\ txn' = [txn EXCEPT ![p] = [rows |-> codes, seq |-> seq]]

BeginImmediate(p) ==
    /\ dbWriter = NoProc
    /\ dbWriter' = p
    /\ txn' = [txn EXCEPT ![p] = [rows |-> codes, seq |-> seq]]

\* db.commit() of the transaction p holds.
Commit(p) ==
    /\ codes' = txn[p].rows
    /\ seq' = txn[p].seq
    /\ txn' = [txn EXCEPT ![p] = NoTxn]
    /\ dbWriter' = NoProc

\* ---------------------------------------------------------- insert_codes
\* Entry: de-duplicate the batch and read the clock.
InsertCall(p) ==
    /\ pc[p] = "idle"
    /\ \E cs \in Batches, now_iso \in 0..(MaxClock + 1) :
        /\ seq + SumPending(Procs) + Missing(Dedup(cs), codes) <= MaxId
        /\ ReadClock(now_iso)
        /\ loc' = [loc EXCEPT ![p] = [Idle EXCEPT !.codes = cs,
                                                   !.unique_codes = Dedup(cs),
                                                   !.by = sender[p],
                                                   !.now_iso = now_iso,
                                                   !.i = 1]]
    /\ pc' = [pc EXCEPT ![p] = "ins_exec"]
    /\ UNCHANGED <<codes, seq, txn, dbWriter, lock, inst, sender, issued, start, users, ev>>

\* One INSERT OR IGNORE of the loop.  The first one opens the connection's
\* implicit transaction and has to get SQLite's write lock.
InsertExec(p) ==
    /\ pc[p] = "ins_exec"
    /\ loc[p].i <= Len(loc[p].unique_codes)
    /\ UNCHANGED pc
    /\ IF txn[p] = NoTxn
       THEN dbWriter = NoProc /\ dbWriter' = p
       ELSE UNCHANGED dbWriter
    /\ LET t  == IF txn[p] = NoTxn THEN [rows |-> codes, seq |-> seq] ELSE txn[p]
           t2 == InsertOrIgnore(t, loc[p].unique_codes[loc[p].i],
                                loc[p].by, loc[p].now_iso)
       IN  /\ txn' = [txn EXCEPT ![p] = t2]
           /\ loc' = [loc EXCEPT ![p].i = @ + 1,
                                 ![p].created = @ + (Len(t2.rows) - Len(t.rows))]
    /\ UNCHANGED <<codes, seq, lock, inst, sender, clock, issued, start, users, ev>>

\* The loop is over: await db.commit().
InsertCommit(p) ==
    /\ pc[p] = "ins_exec"
    /\ loc[p].i > Len(loc[p].unique_codes)
    /\ pc' = [pc EXCEPT ![p] = "ins_count"]
    /\ IF txn[p] = NoTxn
       THEN UNCHANGED <<codes, seq, txn, dbWriter>>
       ELSE Commit(p)
    /\ loc' = [loc EXCEPT ![p].wrote = (codes' # codes)]
    /\ UNCHANGED <<lock, inst, sender, clock, issued, start, users, ev>>

\* Count how many were inserted in this batch using the timestamp marker,
\* and compute the returned pair.
InsertCount(p) ==
    /\ pc[p] = "ins_count"
    /\ pc' = [pc EXCEPT ![p] = "ins_ret"]
    /\ LET inserted_count == CountUploaded(codes, loc[p].now_iso, loc[p].by)
           diff == Len(loc[p].unique_codes) - inserted_count
           duplicates == IF diff > 0 THEN diff ELSE 0
       IN  loc' = [loc EXCEPT ![p].ret = <<inserted_count, duplicates>>]
    /\ UNCHANGED <<codes, seq, txn, dbWriter, lock, inst, sender, clock, issued, start, users, ev>>

\* Leaving a call: the `async with` blocks close the connection and release
\* the asyncio.Lock the call holds, and the caller gets loc[p].ret.
LeaveCall(p) ==
    /\ pc[p] \in {"ins_ret", "alloc_ret", "reset_ret", "clear_ret", "raised"}
    /\ lock' = [s \in Instances |-> IF lock[s] = p THEN NoProc ELSE lock[s]]
    /\ pc' = [pc EXCEPT ![p] = "idle"]
    /\ loc' = [loc EXCEPT ![p] = Idle]
    /\ UNCHANGED <<codes, seq, txn, dbWriter, inst, sender, clock, issued, start, users>>

\* The same with the lock kept.
ReturnKeepLock(p) ==
    /\ pc[p] \in {"ins_ret", "alloc_ret", "reset_ret", "clear_ret", "raised"}
    /\ pc' = [pc EXCEPT ![p] = "idle"]
    /\ loc' = [loc EXCEPT ![p] = Idle]
    /\ UNCHANGED <<codes, seq, txn, dbWriter, lock, inst, sender, clock, issued, start, users, ev>>

\* A direct caller of Storage gets the result.
Return(p) ==
    /\ LeaveCall(p)
    /\ UNCHANGED ev

\* ---------------------------------------------- get_and_mark_next_unused
AllocCall(p) ==
    /\ pc[p] = "idle"
    /\ loc' = [loc EXCEPT ![p] = [Idle EXCEPT !.by = sender[p]]]
    /\ EnterLock(p, "alloc_begin", "alloc_lock")
    /\ UNCHANGED <<codes, seq, txn, dbWriter, inst, sender, clock, issued, start, users, ev>>

AllocAcquire(p) ==
    /\ AcquireLock(p, "alloc_lock", "alloc_begin")
    /\ UNCHANGED <<codes, seq, txn, dbWriter, inst, sender, clock, loc, issued, start, users, ev>>

AllocBegin(p) ==
    /\ pc[p] = "alloc_begin"
    /\ BeginImmediate(p)
    /\ pc' = [pc EXCEPT ![p] = "alloc_select"]
    /\ UNCHANGED <<codes, seq, lock, inst, sender, clock, loc, issued, start, users, ev>>

\* code_row = first unused row in id order, or None; when there is one,
\* read the clock and mark it.  Both statements run inside the transaction
\* AllocBegin opened, where no other connection can write.
AllocSelectUpdate(p) ==
    /\ pc[p] = "alloc_select"
    /\ pc' = [pc EXCEPT ![p] = "alloc_commit"]
    /\ LET code_row == SelectNextUnused(txn[p].rows)
       IN  /\ loc' = [loc EXCEPT ![p].code_row = code_row]
           /\ IF code_row = NoRow
              THEN UNCHANGED <<txn, clock>>
              ELSE \E now_iso \in 0..(MaxClock + 1) :
                      /\ ReadClock(now_iso)
                      /\ txn' = [txn EXCEPT ![p].rows =
                              MarkUsed(@, code_row.id, loc[p].by, now_iso)]
    /\ UNCHANGED <<codes, seq, dbWriter, lock, inst, sender, issued, start, users, ev>>

\* db.commit() on either branch; the result is code_value or None.
AllocCommit(p) ==
    /\ pc[p] = "alloc_commit"
    /\ pc' = [pc EXCEPT ![p] = "alloc_ret"]
    /\ Commit(p)
    /\ IF loc[p].code_row = NoRow
       THEN /\ loc' = [loc EXCEPT ![p].ret = None]
            /\ UNCHANGED issued
       ELSE /\ loc' = [loc EXCEPT ![p].ret = loc[p].code_row.code,
                                  ![p].wrote = TRUE]
            /\ issued' = Append(issued, loc[p].code_row)
    /\ UNCHANGED <<lock, inst, sender, clock, start, users, ev>>

\* ------------------------------------------------------- reset_all_codes
ResetCall(p) ==
    /\ pc[p] = "idle"
    /\ loc' = [loc EXCEPT ![p] = Idle]
    /\ EnterLock(p, "reset_begin", "reset_lock")
    /\ UNCHANGED <<codes, seq, txn, dbWriter, inst, sender, clock, issued, start, users, ev>>

ResetAcquire(p) ==
    /\ AcquireLock(p, "reset_lock", "reset_begin")
    /\ UNCHANGED <<codes, seq, txn, dbWriter, inst, sender, clock, loc, issued, start, users, ev>>

ResetBegin(p) ==
    /\ pc[p] = "reset_begin"
    /\ BeginImmediate(p)
    /\ pc' = [pc EXCEPT ![p] = "reset_update"]
    /\ UNCHANGED <<codes, seq, lock, inst, sender, clock, loc, issued, start, users, ev>>

\* Count used codes, then reset them, inside the transaction.
ResetUpdate(p) ==
    /\ pc[p] = "reset_update"
    /\ pc' = [pc EXCEPT ![p] = "reset_commit"]
    /\ loc' = [loc EXCEPT ![p].count = CountUsed(txn[p].rows)]
    /\ txn' = [txn EXCEPT ![p].rows = ResetUsed(@)]
    /\ UNCHANGED <<codes, seq, dbWriter, lock, inst, sender, clock, issued, start, users, ev>>

ResetCommit(p) ==
    /\ pc[p] = "reset_commit"
    /\ pc' = [pc EXCEPT ![p] = "reset_after"]
    /\ Commit(p)
    /\ issued' = <<>>
    /\ loc' = [loc EXCEPT ![p].wrote = (codes' # codes),
                          ![p].rows_at_commit = Len(codes')]
    /\ UNCHANGED <<lock, inst, sender, clock, start, users, ev>>

\* Count total unused after, outside the transaction.
ResetCountUnused(p) ==
    /\ pc[p] = "reset_after"
    /\ pc' = [pc EXCEPT ![p] = "reset_ret"]
    /\ loc' = [loc EXCEPT ![p].ret = <<loc[p].count, CountUnused(codes)>>]
    /\ UNCHANGED <<codes, seq, txn, dbWriter, lock, inst, sender, clock, issued, start, users, ev>>

\* ------------------------------------------------------- clear_all_codes
ClearCall(p) ==
    /\ pc[p] = "idle"
    /\ loc' = [loc EXCEPT ![p] = Idle]
    /\ EnterLock(p, "clear_begin", "clear_lock")
    /\ UNCHANGED <<codes, seq, txn, dbWriter, inst, sender, clock, issued, start, users, ev>>

ClearAcquire(p) ==
    /\ AcquireLock(p, "clear_lock", "clear_begin")
    /\ UNCHANGED <<codes, seq, txn, dbWriter, inst, sender, clock, loc, issued, start, users, ev>>

ClearBegin(p) ==
    /\ pc[p] = "clear_begin"
    /\ BeginImmediate(p)
    /\ pc' = [pc EXCEPT ![p] = "clear_delete"]
    /\ UNCHANGED <<codes, seq, lock, inst, sender, clock, loc, issued, start, users, ev>>

\* Count total rows first, then delete all, inside the transaction; the
\* AUTOINCREMENT counter is kept.
ClearDelete(p) ==
    /\ pc[p] = "clear_delete"
    /\ pc' = [pc EXCEPT ![p] = "clear_commit"]
    /\ loc' = [loc EXCEPT ![p].count = Len(txn[p].rows)]
    /\ txn' = [txn EXCEPT ![p].rows = DeleteAll(@)]
    /\ UNCHANGED <<codes, seq, dbWriter, lock, inst, sender, clock, issued, start, users, ev>>

ClearCommit(p) ==
    /\ pc[p] = "clear_commit"
    /\ pc' = [pc EXCEPT ![p] = "clear_ret"]
    /\ Commit(p)
    /\ issued' = <<>>
    /\ loc' = [loc EXCEPT ![p].ret = loc[p].count,
                          ![p].wrote = (codes' # codes)]
    /\ UNCHANGED <<lock, inst, sender, clock, start, users, ev>>

\* ------------------------------------------------------ the bot's handlers
\* ADMIN_IDS, and a Telegram user who is not in it.
ADMIN_IDS == Users

Stranger == 3

\* _is_admin(user.id), and a test that lets everybody in.
IsAdminAlways(user_id) == TRUE

IsAdmin(user_id) == user_id \in ADMIN_IDS

\* The handlers main() registers that reach the store.
Uploads == {"handle_private_upload", "cmd_upload"}

Handlers == Uploads \cup {"cmd_distribute", "cmd_remaining", "cmd_usage", "cmd_reset"}

\* The chat updates the dispatcher hands to a handler: plain private messages
\* go to handle_private_upload, /fa is only taken from groups.
Updates ==
    {e \in [handler : Handlers, private : BOOLEAN, stage : {"new"},
            reply : {None}, report : {NoReport}] :
        /\ e.handler = "handle_private_upload" => e.private
        /\ e.handler = "cmd_distribute" => ~e.private}

\* The test every handler starts with.
Allowed(p) ==
    /\ IsAdmin(sender[p])
    /\ ev[p].handler \in {"cmd_upload", "cmd_reset"} => ev[p].private

\* Where an admitted update goes first.
FirstStage(handler) ==
    IF handler \in {"handle_private_upload", "cmd_distribute"} THEN "upsert"
    ELSE IF handler = "cmd_remaining" THEN "count"
    ELSE IF handler = "cmd_usage" THEN "counts_total"
    ELSE "call"

\* Entry of a handler: whoever is refused gets the no-permission message
\* and the handler returns.
HandlerEntry(p) ==
    /\ ev[p].stage = "new"
    /\ IF Allowed(p)
       THEN ev' = [ev EXCEPT ![p].stage = FirstStage(ev[p].handler)]
       ELSE ev' = [ev EXCEPT ![p].stage = "done", ![p].reply = "noperm"]
    /\ UNCHANGED <<codes, seq, txn, dbWriter, lock, inst, sender, clock, pc, loc,
                   issued, start, users>>

\* storage.upsert_user(user.id, full_name, username): one statement and its
\* commit on table users, under SQLite's write lock.  Column updated_at is
\* left out: nothing reads it.
UpsertUser(p) ==
    /\ ev[p].stage = "upsert"
    /\ dbWriter = NoProc
    /\ users' = UpsertRow(users, sender[p], DisplayName(sender[p]), UserName(sender[p]))
    /\ ev' = [ev EXCEPT ![p].stage = "call"]
    /\ UNCHANGED <<codes, seq, txn, dbWriter, lock, inst, sender, clock, pc, loc,
                   issued, start>>

\* An upload whose message holds no code, or is of an unsupported kind, is
\* answered without a call of the store.
NoCodes(p) ==
    /\ ev[p].stage = "call"
    /\ ev[p].handler \in Uploads
    /\ pc[p] = "idle"
    /\ ev' = [ev EXCEPT ![p].stage = "done", ![p].reply = "nocodes"]
    /\ UNCHANGED <<codes, seq, txn, dbWriter, lock, inst, sender, clock, pc, loc,
                   issued, start, users>>

\* The handler's call of the store.
CallInsert(p) ==
    /\ ev[p].stage = "call"
    /\ ev[p].handler \in Uploads
    /\ InsertCall(p)

CallAlloc(p) ==
    /\ ev[p].stage = "call"
    /\ ev[p].handler = "cmd_distribute"
    /\ AllocCall(p)

CallClear(p) ==
    /\ ev[p].stage = "call"
    /\ ev[p].handler = "cmd_reset"
    /\ ClearCall(p)

\* The call returns to the handler: cmd_distribute and cmd_reset answer
\* with the result, the uploads go on to count_unused().
HandlerReturn(p) ==
    /\ ev[p].stage = "call"
    /\ LeaveCall(p)
    /\ ev' = [ev EXCEPT
                ![p].stage = IF ev[p].handler \in Uploads THEN "count" ELSE "done",
                ![p].reply = IF ev[p].handler = "cmd_distribute" THEN loc[p].ret
                             ELSE IF ev[p].handler = "cmd_reset" THEN "cleared"
                             ELSE None]

\* remaining = await storage.count_unused(), and the answer.
CountUnusedReply(p) ==
    /\ ev[p].stage = "count"
    /\ ev' = [ev EXCEPT ![p].stage = "done",
                        ![p].reply = IF ev[p].handler \in Uploads
                                     THEN "uploaded" ELSE "remaining"]
    /\ UNCHANGED <<codes, seq, txn, dbWriter, lock, inst, sender, clock, pc, loc,
                   issued, start, users>>

\* The four queries of cmd_usage, each on its own connection.
UsageCountsTotal(p) ==
    /\ ev[p].stage = "counts_total"
    /\ \E counts_total \in UsageCountsWithNames(codes, users) :
          ev' = [ev EXCEPT ![p].stage = "counts_today",
                           ![p].report.counts_total = counts_total]
    /\ UNCHANGED <<codes, seq, txn, dbWriter, lock, inst, sender, clock, pc, loc,
                   issued, start, users>>

UsageCountsToday(p) ==
    /\ ev[p].stage = "counts_today"
    /\ \E now \in 0..(MaxClock + 1) :
        /\ ReadClock(now)
        /\ \E counts_today \in UsageCountsWithNamesToday(codes, users, DayOf(now)) :
              ev' = [ev EXCEPT ![p].stage = "grand_total",
                               ![p].report.counts_today = counts_today]
    /\ UNCHANGED <<codes, seq, txn, dbWriter, lock, inst, sender, pc, loc,
                   issued, start, users>>

UsageGrandTotal(p) ==
    /\ ev[p].stage = "grand_total"
    /\ ev' = [ev EXCEPT ![p].stage = "grand_today",
                        ![p].report.grand_total = TotalUsedCount(codes)]
    /\ UNCHANGED <<codes, seq, txn, dbWriter, lock, inst, sender, clock, pc, loc,
                   issued, start, users>>

\* The last query, and the answer built from the four results.
UsageGrandToday(p) ==
    /\ ev[p].stage = "grand_today"
    /\ \E now \in 0..(MaxClock + 1) :
        /\ ReadClock(now)
        /\ ev' = [ev EXCEPT ![p].stage = "done",
                            ![p].reply = "usage",
                            ![p].report.grand_today = TotalUsedToday(codes, DayOf(now))]
    /\ UNCHANGED <<codes, seq, txn, dbWriter, lock, inst, sender, pc, loc,
                   issued, start, users>>

\* ------------------------------------------------------------------ Spec
Next ==
    \/ \E p \in Procs : InsertCall(p)
    \/ \E p \in Procs : InsertExec(p)
    \/ \E p \in Procs : InsertCommit(p)
    \/ \E p \in Procs : InsertCount(p)
    \/ \E p \in Procs : AllocCall(p)
    \/ \E p \in Procs : AllocAcquire(p)
    \/ \E p \in Procs : AllocBegin(p)
    \/ \E p \in Procs : AllocSelectUpdate(p)
    \/ \E p \in Procs : AllocCommit(p)
    \/ \E p \in Procs : ResetCall(p)
    \/ \E p \in Procs : ResetAcquire(p)
    \/ \E p \in Procs : ResetBegin(p)
    \/ \E p \in Procs : ResetUpdate(p)
    \/ \E p \in Procs : ResetCommit(p)
    \/ \E p \in Procs : ResetCountUnused(p)
    \/ \E p \in Procs : ClearCall(p)
    \/ \E p \in Procs : ClearAcquire(p)
    \/ \E p \in Procs : ClearBegin(p)
    \/ \E p \in Procs : ClearDelete(p)
    \/ \E p \in Procs : ClearCommit(p)
    \/ \E p \in Procs : Return(p)

Spec == Init /\ [][Next]_vars

\* ------------------------------------------------- chat updates handled
\* Tables the store can hold: k rows with ids 1..k and distinct values, each
\* either Unused or Used and stamped.
SeedTables(k) ==
    {[i \in 1..k |->
          Row(i, vs[i], used[i], 1, 0,
              IF used[i] = 1 THEN 2 ELSE NULL, IF used[i] = 1 THEN 0 ELSE NULL)] :
       vs \in {f \in [1..k -> Values] : \A i, j \in 1..k : i # j => f[i] # f[j]},
       used \in [1..k -> {0, 1}]}

\* Two chat updates are being handled, by one bot process or by two that
\* opened the same database.  The store holds what earlier direct calls of
\* Storage left (rows stamped before the current clock reading, nobody
\* registered yet); the second update comes from an admin, the first from
\* anybody.
InitBot ==
    /\ \E k \in 0..MaxId : codes \in SeedTables(k)
    /\ seq = Len(codes)
    /\ txn = [p \in Procs |-> NoTxn]
    /\ dbWriter = NoProc
    /\ lock = [s \in Instances |-> NoProc]
    /\ inst \in {f \in [Procs -> Instances] : f[1] = 1}
    /\ sender \in {f \in [Procs -> ADMIN_IDS \cup {Stranger}] : f[2] = 2}
    /\ clock = MaxClock
    /\ pc = [p \in Procs |-> "idle"]
    /\ loc = [p \in Procs |-> Idle]
    /\ issued = <<>>
    /\ start = [rows |-> codes, n |-> Cardinality(Procs)]
    /\ users = <<>>
    /\ ev \in [Procs -> Updates]

NextBot ==
    \/ \E p \in Procs : HandlerEntry(p)
    \/ \E p \in Procs : UpsertUser(p)
    \/ \E p \in Procs : NoCodes(p)
    \/ \E p \in Procs : CallInsert(p)
    \/ \E p \in Procs : InsertExec(p)
    \/ \E p \in Procs : InsertCommit(p)
    \/ \E p \in Procs : InsertCount(p)
    \/ \E p \in Procs : CallAlloc(p)
    \/ \E p \in Procs : AllocAcquire(p)
    \/ \E p \in Procs : AllocBegin(p)
    \/ \E p \in Procs : AllocSelectUpdate(p)
    \/ \E p \in Procs : AllocCommit(p)
    \/ \E p \in Procs : CallClear(p)
    \/ \E p \in Procs : ClearAcquire(p)
    \/ \E p \in Procs : ClearBegin(p)
    \/ \E p \in Procs : ClearDelete(p)
    \/ \E p \in Procs : ClearCommit(p)
    \/ \E p \in Procs : HandlerReturn(p)
    \/ \E p \in Procs : CountUnusedReply(p)
    \/ \E p \in Procs : UsageCountsTotal(p)
    \/ \E p \in Procs : UsageCountsToday(p)
    \/ \E p \in Procs : UsageGrandTotal(p)
    \/ \E p \in Procs : UsageGrandToday(p)

SpecBot == InitBot /\ [][NextBot]_vars

\* ------------------------------------- allocate, reset and clear together
\* Direct callers of get_and_mark_next_unused, reset_all_codes and
\* clear_all_codes over a store that holds some codes; the callers use one
\* Storage object or two that opened the same database.
InitShared ==
    /\ \E k \in 0..MaxId : codes \in SeedTables(k)
    /\ seq = Len(codes)
    /\ txn = [p \in Procs |-> NoTxn]
    /\ dbWriter = NoProc
    /\ lock = [s \in Instances |-> NoProc]
    /\ inst \in {f \in [Procs -> Instances] : f[1] = 1}
    /\ sender \in {f \in [Procs -> Users] : f[1] = 1}
    /\ clock = 0
    /\ pc = [p \in Procs |-> "idle"]
    /\ loc = [p \in Procs |-> Idle]
    /\ issued = <<>>
    /\ start = [rows |-> codes, n |-> 0]
    /\ users = <<>>
    /\ ev = [p \in Procs |-> NoEvent]

NextShared ==
    \/ \E p \in Procs : AllocCall(p)
    \/ \E p \in Procs : AllocAcquire(p)
    \/ \E p \in Procs : AllocBegin(p)
    \/ \E p \in Procs : AllocSelectUpdate(p)
    \/ \E p \in Procs : AllocCommit(p)
    \/ \E p \in Procs : ResetCall(p)
    \/ \E p \in Procs : ResetAcquire(p)
    \/ \E p \in Procs : ResetBegin(p)
    \/ \E p \in Procs : ResetUpdate(p)
    \/ \E p \in Procs : ResetCommit(p)
    \/ \E p \in Procs : ResetCountUnused(p)
    \/ \E p \in Procs : ClearCall(p)
    \/ \E p \in Procs : ClearAcquire(p)
    \/ \E p \in Procs : ClearBegin(p)
    \/ \E p \in Procs : ClearDelete(p)
    \/ \E p \in Procs : ClearCommit(p)
    \/ \E p \in Procs : Return(p)

SpecShared == InitShared /\ [][NextShared]_vars

\* ------------------------------------------------- /yongliang beside /fa
\* Most rows of a stocked store.
MaxRows == 3

\* The value of the i-th row of a stocked store.
StockCode(i) == IF i = 1 THEN "S1" ELSE IF i = 2 THEN "S2" ELSE "S3"

\* Stocked stores: k rows with distinct values, each Unused or handed out
\* to some user at the first clock reading.
Stocks(k) ==
    {[i \in 1..k |->
          Row(i, StockCode(i), IF by[i] = NULL THEN 0 ELSE 1, 1, 0,
              by[i], IF by[i] = NULL THEN NULL ELSE 0)] :
       by \in [1..k -> Users \cup {NULL}]}

\* Any set of users may be registered.
Registries ==
    {[u \in S |-> [display_name |-> DisplayName(u), username |-> UserName(u)]] :
        S \in SUBSET Users}

\* An admin's /yongliang is handled while another admin's /fa or /chongzhi
\* is.
InitUsage ==
    /\ \E k \in 0..MaxRows : codes \in Stocks(k)
    /\ seq = Len(codes)
    /\ txn = [p \in Procs |-> NoTxn]
    /\ dbWriter = NoProc
    /\ lock = [s \in Instances |-> NoProc]
    /\ inst = [p \in Procs |-> 1]
    /\ sender \in {f \in [Procs -> ADMIN_IDS] : f[1] = 1}
    /\ clock = 0
    /\ pc = [p \in Procs |-> "idle"]
    /\ loc = [p \in Procs |-> Idle]
    /\ issued = <<>>
    /\ start = [rows |-> codes, n |-> Cardinality(Procs)]
    /\ users \in Registries
    /\ ev \in {f \in [Procs -> Updates] :
                /\ f[1].handler = "cmd_usage" /\ f[1].private
                /\ f[2].handler \in {"cmd_distribute", "cmd_reset"}
                /\ f[2].handler = "cmd_reset" => f[2].private}

NextUsage ==
    \/ \E p \in Procs : HandlerEntry(p)
    \/ \E p \in Procs : UpsertUser(p)
    \/ \E p \in Procs : CallAlloc(p)
    \/ \E p \in Procs : AllocBegin(p)
    \/ \E p \in Procs : AllocSelectUpdate(p)
    \/ \E p \in Procs : AllocCommit(p)
    \/ \E p \in Procs : CallClear(p)
    \/ \E p \in Procs : ClearBegin(p)
    \/ \E p \in Procs : ClearDelete(p)
    \/ \E p \in Procs : ClearCommit(p)
    \/ \E p \in Procs : HandlerReturn(p)
    \/ \E p \in Procs : UsageCountsTotal(p)
    \/ \E p \in Procs : UsageCountsToday(p)
    \/ \E p \in Procs : UsageGrandTotal(p)
    \/ \E p \in Procs : UsageGrandToday(p)

SpecUsage == InitUsage /\ [][NextUsage]_vars

\* ------------------------------------------------------- storage errors
\* Where a call is about to run a database statement.
AtStatement(p) ==
    pc[p] \in {"ins_exec", "ins_count",
               "alloc_begin", "alloc_select", "alloc_commit",
               "reset_begin", "reset_update", "reset_commit", "reset_after",
               "clear_begin", "clear_delete", "clear_commit"}

\* Where a call needs SQLite's write lock for its next statement.
AtWriteLock(p) ==
    \/ pc[p] \in {"alloc_begin", "reset_begin", "clear_begin"}
    \/ pc[p] = "ins_exec" /\ txn[p] = NoTxn /\ loc[p].i <= Len(loc[p].unique_codes)

\* The statement raises (sqlite3.Error: I/O failure, corruption, `database
\* is locked`): the exception leaves the `async with aiosqlite.connect`
\* block, which closes the connection and so rolls back what it had not
\* committed, and then the `async with self._lock` block.
StoreError(p) ==
    /\ AtStatement(p)
    /\ txn' = [txn EXCEPT ![p] = NoTxn]
    /\ dbWriter' = IF dbWriter = p THEN NoProc ELSE dbWriter
    /\ pc' = [pc EXCEPT ![p] = "raised"]
    /\ UNCHANGED <<codes, seq, lock, inst, sender, clock, loc, issued, start, users, ev>>

\* SQLite's busy timeout runs out while another connection keeps the write
\* lock: the statement raises `database is locked`.
BusyTimeout(p) ==
    /\ AtWriteLock(p)
    /\ dbWriter \notin {NoProc, p}
    /\ StoreError(p)

\* Direct callers of one Storage object on an empty store, serving one
\* operator, at a time when the clock has reached its last reading; their
\* statements may fail.
InitFail ==
    /\ codes = <<>>
    /\ seq = 0
    /\ txn = [p \in Procs |-> NoTxn]
    /\ dbWriter = NoProc
    /\ lock = [s \in Instances |-> NoProc]
    /\ inst = [p \in Procs |-> 1]
    /\ sender = [p \in Procs |-> 1]
    /\ clock = MaxClock
    /\ pc = [p \in Procs |-> "idle"]
    /\ loc = [p \in Procs |-> Idle]
    /\ issued = <<>>
    /\ start = [rows |-> <<>>, n |-> 0]
    /\ users = <<>>
    /\ ev = [p \in Procs |-> NoEvent]

NextFail ==
    \/ Next
    \/ \E p \in Procs : StoreError(p)

SpecFail == InitFail /\ [][NextFail]_vars

\* A started call goes on: the event loop resumes a coroutine whose awaited
\* statement can complete, a wait for SQLite's write lock ends with the lock
\* or with the busy timeout, and asyncio.Lock wakes its waiters in turn.
Progress(p) ==
    \/ InsertExec(p) \/ InsertCommit(p) \/ InsertCount(p)
    \/ AllocBegin(p) \/ AllocSelectUpdate(p) \/ AllocCommit(p)
    \/ ResetBegin(p) \/ ResetUpdate(p) \/ ResetCommit(p) \/ ResetCountUnused(p)
    \/ ClearBegin(p) \/ ClearDelete(p) \/ ClearCommit(p)
    \/ BusyTimeout(p)
    \/ Return(p)

Wakeup(p) == AllocAcquire(p) \/ ResetAcquire(p) \/ ClearAcquire(p)

\* What every step of a call changes: its position, or the index of its
\* INSERT loop.
position == <<pc, [p \in Procs |-> loc[p].i]>>

Fairness == \A p \in Procs : WF_position(Progress(p)) /\ SF_position(Wakeup(p))

SpecLive == SpecFail /\ Fairness

\* ---------------------------------------------------------------- claims
Distinct(sq) == \A i, j \in 1..Len(sq) : i # j => sq[i] # sq[j]

CodesOf(rows) == [i \in 1..Len(rows) |-> rows[i].code]

Unused(rows) == {r \in RowsOf(rows) : r.is_used = 0}

\* Position of the first occurrence of v in the batch cs.
FirstIndex(cs, v) == CHOOSE i \in 1..Len(cs) : cs[i] = v /\ \A j \in 1..(i - 1) : cs[j] # v

\* p takes the step that leads from position a to position b of its call.
Step(p, a, b) == pc[p] = a /\ pc'[p] = b

\* C1: among the allocations committed since the last reset_all_codes or
\* clear_all_codes commit, under any interleaving with each other and with
\* insert_codes, no code value is handed out twice.
C1_NoDoubleIssue == Distinct(CodesOf(issued))

\* Two allocations have been committed in a row and the second caller holds
\* its result.
C1_Witness ==
    /\ Len(issued) = 2
    /\ \E p \in Procs : pc[p] = "alloc_ret" /\ loc[p].ret = issued[2].code

\* C2: the row an allocation selects is the unused row of smallest id in the
\* committed table at that instant; ids handed out between two resets or
\* clears grow strictly; and the rows one insert_codes call creates get ids in
\* the order of first occurrence of their values in its batch, after every
\* id already in the table.
C2_FifoAllocation ==
    [][\A p \in Procs :
        /\ (Step(p, "alloc_select", "alloc_commit") /\ Unused(codes) # {}) =>
              \E r \in Unused(codes) :
                  /\ loc'[p].code_row = [id |-> r.id, code |-> r.code]
                  /\ \A q \in Unused(codes) : r.id <= q.id
        /\ (Step(p, "alloc_commit", "alloc_ret") /\ loc'[p].ret # None) =>
              /\ issued' = Append(issued, loc[p].code_row)
              /\ loc'[p].ret = loc[p].code_row.code
              /\ \A i \in 1..Len(issued) : issued[i].id < loc[p].code_row.id
        /\ Step(p, "ins_exec", "ins_count") =>
              \A i, j \in 1..Len(codes') :
                  (i < j /\ j > Len(codes)) =>
                      /\ codes'[i].id < codes'[j].id
                      /\ i > Len(codes) =>
                            FirstIndex(loc[p].codes, codes'[i].code)
                                < FirstIndex(loc[p].codes, codes'[j].code)
      ]_vars

\* A batch that listed A2 before A1 went into the empty store and two
\* allocations handed out A2, then A1.
C2_Witness ==
    /\ CodesOf(codes) = <<"A2", "A1">>
    /\ CodesOf(issued) = <<"A2", "A1">>
    /\ codes[1].uploaded_at = codes[2].uploaded_at

\* C4: every committed row that is Used carries both used_by and used_at.
C4_UsedIsStamped ==
    \A r \in RowsOf(codes) :
        r.is_used = 1 => (r.used_by # NULL /\ r.used_at # NULL)

\* A committed table that holds a Used row next to an Unused one.
C4_Witness ==
    /\ \E r \in RowsOf(codes) : r.is_used = 1
    /\ \E r \in RowsOf(codes) : r.is_used = 0

\* C5: no two rows carry the same code value, in the committed table and in
\* the working copy of the open write transaction.
C5_UniqueValues ==
    /\ Distinct(CodesOf(codes))
    /\ \A p \in Procs : Distinct(CodesOf(txn[p].rows))

\* Two insert_codes calls carrying A1 overlapped, one of them repeating A1 in
\* its batch; one call created the row and the other created none.
C5_Witness ==
    \E p, q \in Procs :
        /\ p # q
        /\ pc[p] = "ins_count" /\ pc[q] = "ins_count"
        /\ loc[p].codes = <<"A1">> /\ loc[q].codes = <<"A1", "A1">>
        /\ loc[p].created + loc[q].created = 1
        /\ Len(codes) = 1

\* ------------------------------------------------- a burst of allocations
\* N >= 1 callers have entered get_and_mark_next_unused at once over a store
\* holding at least N Unused codes: on each Storage object one of its callers
\* took the free asyncio.Lock and the others wait for it.
InitBurst ==
    /\ \E k \in 1..MaxId : codes \in SeedTables(k)
    /\ seq = Len(codes)
    /\ txn = [p \in Procs |-> NoTxn]
    /\ dbWriter = NoProc
    /\ inst \in {f \in [Procs -> Instances] : f[1] = 1}
    /\ sender \in {f \in [Procs -> Users] : f[1] = 1}
    /\ clock = 0
    /\ \E callers \in SUBSET Procs :
        /\ callers # {}
        /\ Cardinality(callers) <= CountUnused(codes)
        /\ lock \in [Instances -> Procs \cup {NoProc}]
        /\ \A s \in Instances :
              IF \E p \in callers : inst[p] = s
              THEN lock[s] \in callers /\ inst[lock[s]] = s
              ELSE lock[s] = NoProc
        /\ pc = [p \in Procs |->
                    IF p \notin callers THEN "idle"
                    ELSE IF lock[inst[p]] = p THEN "alloc_begin" ELSE "alloc_lock"]
        /\ loc = [p \in Procs |->
                    IF p \in callers THEN [Idle EXCEPT !.by = sender[p]] ELSE Idle]
        /\ start = [rows |-> codes, n |-> Cardinality(callers)]
    /\ issued = <<>>
    /\ users = <<>>
    /\ ev = [p \in Procs |-> NoEvent]

NextBurst ==
    \/ \E p \in Procs : AllocAcquire(p)
    \/ \E p \in Procs : AllocBegin(p)
    \/ \E p \in Procs : AllocSelectUpdate(p)
    \/ \E p \in Procs : AllocCommit(p)
    \/ \E p \in Procs : Return(p)

SpecBurst == InitBurst /\ [][NextBurst]_vars

\* C3: N concurrent allocations over M >= N Unused codes, with no reset,
\* clear or insert running: no call returns None, and once all N have
\* returned they have handed out N pairwise distinct values, each Unused
\* before the burst, and count_unused() is lower by exactly N.
C3_BurstAllServed ==
    /\ \A p \in Procs : pc[p] = "alloc_ret" => loc[p].ret # None
    /\ (\A p \in Procs : pc[p] = "idle") =>
          /\ Len(issued) = start.n
          /\ Distinct(CodesOf(issued))
          /\ \A i \in 1..Len(issued) :
                \E r \in Unused(start.rows) :
                    r.id = issued[i].id /\ r.code = issued[i].code
          /\ CountUnused(codes) = CountUnused(start.rows) - start.n

\* Two callers holding different asyncio locks started together and both
\* have returned.
C3_Witness ==
    /\ start.n = 2
    /\ inst[1] # inst[2]
    /\ \A p \in Procs : pc[p] = "idle"
    /\ Len(issued) = 2

\* C6: the pair insert_codes returns adds up to the number of distinct
\* values of its input sequence.
C6_CountsAddUp ==
    \A p \in Procs :
        pc[p] = "ins_ret" =>
            loc[p].ret[1] + loc[p].ret[2]
                = Cardinality({loc[p].codes[i] : i \in 1..Len(loc[p].codes)})

\* C7: inserted_count is the number of rows the call created and
\* duplicate_count the number of its unique candidates that were present.
C7_CountsAreExact ==
    \A p \in Procs :
        pc[p] = "ins_ret" =>
            /\ loc[p].ret[1] = loc[p].created
            /\ loc[p].ret[2] = Len(loc[p].unique_codes) - loc[p].created

\* C8: the commit of an insert_codes call appends one Unused row, stamped
\* with the uploader and the upload time, for each distinct input value that
\* has no row, and leaves every existing row as it is; no other step of the
\* call changes the table.
C8_InsertOnlyAddsMissing ==
    [][\A p \in Procs :
        /\ Step(p, "ins_exec", "ins_count") =>
            LET input   == {loc[p].codes[i] : i \in 1..Len(loc[p].codes)}
                missing == {v \in input : \A r \in RowsOf(codes) : r.code # v}
            IN  /\ Len(codes') = Len(codes) + Cardinality(missing)
                /\ \A i \in 1..Len(codes) : codes'[i] = codes[i]
                /\ \A v \in missing :
                      \E i \in (Len(codes) + 1)..Len(codes') :
                          /\ codes'[i].code = v
                          /\ codes'[i].is_used = 0
                          /\ codes'[i].uploaded_by = loc[p].by
                          /\ codes'[i].uploaded_at = loc[p].now_iso
                          /\ codes'[i].used_by = NULL
                          /\ codes'[i].used_at = NULL
                /\ CountUnused(codes') = CountUnused(codes) + Cardinality(missing)
        /\ (Step(p, "idle", "ins_exec") \/ Step(p, "ins_count", "ins_ret")
               \/ Step(p, "ins_ret", "idle")
               \/ (Step(p, "ins_exec", "ins_exec") /\ loc'[p] # loc[p]))
              => codes' = codes
      ]_vars

\* An insert_codes call whose batch held the value of a Used row and a new
\* value has committed: the Used row is still Used.
C8_Witness ==
    \E p \in Procs :
        /\ pc[p] = "ins_count"
        /\ loc[p].created = 1
        /\ Len(loc[p].unique_codes) = 2
        /\ \E r \in RowsOf(codes) :
              r.is_used = 1 /\ r.code = loc[p].unique_codes[1]

\* C9: an allocation that finds no Unused row selects nothing, commits
\* without changing the table and returns None.
C9_EmptyAllocation ==
    [][\A p \in Procs :
        /\ (Step(p, "alloc_select", "alloc_commit") /\ Unused(codes) = {}) =>
              /\ loc'[p].code_row = NoRow
              /\ txn' = txn
              /\ txn[p].rows = codes
        /\ (Step(p, "alloc_commit", "alloc_ret") /\ loc[p].code_row = NoRow) =>
              /\ codes' = codes
              /\ seq' = seq
              /\ loc'[p].ret = None
      ]_vars

\* An allocation has returned None over a store whose rows are all Used.
C9_Witness ==
    \E p \in Procs :
        /\ pc[p] = "alloc_ret"
        /\ loc[p].ret = None
        /\ codes # <<>>
        /\ Unused(codes) = {}

\* C10: the commit of reset_all_codes leaves every row Unused with used_by
\* and used_at cleared and with its id, value and upload stamps unchanged,
\* adds and removes no row, so that count_unused() is the row count; and the
\* reset_count it returns is the number of rows Used just before the commit.
C10_ResetRestoresAll ==
    [][\A p \in Procs :
        /\ Step(p, "reset_commit", "reset_after") =>
              /\ Len(codes') = Len(codes)
              /\ \A i \in 1..Len(codes) :
                    codes'[i] = [codes[i] EXCEPT !.is_used = 0,
                                                 !.used_by = NULL,
                                                 !.used_at = NULL]
              /\ CountUnused(codes') = Len(codes')
              /\ loc[p].count = CountUsed(codes)
        /\ Step(p, "reset_after", "reset_ret") => loc'[p].ret[1] = loc[p].count
      ]_vars

\* A reset has returned after reverting a Used row of a store that also held
\* an Unused one.
C10_Witness ==
    \E p \in Procs :
        /\ pc[p] = "reset_ret"
        /\ loc[p].ret[1] = 1
        /\ Len(codes) = 2
        /\ CountUnused(codes) = 2

\* C11: the commit of clear_all_codes leaves no row in codes, Used or
\* Unused; the call returns the number of rows the table held at that
\* instant; right after it count_unused() and total_used_count() are 0 and
\* both usage reports are empty; table users is as it was.
C11_ClearDeletesAll ==
    [][\A p \in Procs :
          Step(p, "clear_commit", "clear_ret") =>
              /\ codes' = <<>>
              /\ loc'[p].ret = Len(codes)
              /\ CountUnused(codes') = 0
              /\ TotalUsedCount(codes') = 0
              /\ UsageCountsWithNames(codes', users') = {<<>>}
              /\ \A now \in 0..MaxClock :
                    /\ UsageCountsWithNamesToday(codes', users', DayOf(now)) = {<<>>}
                    /\ TotalUsedToday(codes', DayOf(now)) = 0
              /\ users' = users]_vars

\* /chongzhi has just cleared a table of one Used and one Unused row while
\* somebody is registered.
C11_Witness ==
    \E p \in Procs :
        /\ pc[p] = "clear_ret"
        /\ ev[p].handler = "cmd_reset"
        /\ loc[p].ret = 2
        /\ CountUsed(start.rows) = 1
        /\ codes = <<>>
        /\ users # <<>>

\* C16: a handler serving an update whose sender is not in ADMIN_IDS never
\* calls the store: whatever step it takes, tables codes and users stay as
\* they are, it enters no Storage call, fetches no report, and what it
\* answers is the no-permission message, never a code.
C16_StrangersRefused ==
    [][\A p \in Procs :
          (sender[p] \notin ADMIN_IDS /\ <<ev[p], pc[p], loc[p]>> # <<ev'[p], pc'[p], loc'[p]>>) =>
              /\ codes' = codes
              /\ users' = users
              /\ seq' = seq
              /\ pc'[p] = "idle"
              /\ ev'[p].stage = "done"
              /\ ev'[p].reply = "noperm"
              /\ ev'[p].report = NoReport]_vars

\* A stranger's /chongzhi in a private chat has been refused and the codes
\* are still there.
C16_Witness ==
    \E p \in Procs :
        /\ sender[p] = Stranger
        /\ ev[p].handler = "cmd_reset"
        /\ ev[p].private
        /\ ev[p].stage = "done"
        /\ codes = start.rows
        /\ Len(codes) = 2

\* C17: when a handler has served an update it admitted (sent by an admin,
\* in a chat where the command is taken), the admin has a row in table
\* users; and no step removes a row from users.
C17_AdminsAreRegistered ==
    [][/\ \A p \in Procs :
            (Allowed(p) /\ ev'[p].stage = "done")
                => sender[p] \in DOMAIN users'
       /\ DOMAIN users \subseteq DOMAIN users']_vars

\* p is between the first read of table codes and the commit of a
\* get_and_mark_next_unused, reset_all_codes or clear_all_codes call.
InWrite(p) ==
    pc[p] \in {"alloc_select", "alloc_commit", "reset_update", "reset_commit",
               "clear_delete", "clear_commit"}

\* C12: no two get_and_mark_next_unused, reset_all_codes or clear_all_codes
\* calls are between their first read of codes and their commit at once,
\* whichever Storage objects they go through; and while one of them is
\* there the committed table changes only by its own commit.
C12_WritersExclude ==
    [][/\ \A p, q \in Procs : (p # q /\ InWrite(p)') => ~InWrite(q)'
       /\ \A p \in Procs :
            (InWrite(p) /\ codes' # codes) =>
                pc'[p] \in {"alloc_ret", "reset_after", "clear_ret"}]_vars

\* A reset has read and updated, and an allocation that came through the
\* other Storage object holds that object's asyncio.Lock and waits at BEGIN.
C12_Witness ==
    \E p, q \in Procs :
        /\ inst[p] # inst[q]
        /\ pc[p] = "reset_commit"
        /\ loc[p].count > 0
        /\ pc[q] = "alloc_begin"
        /\ lock[inst[q]] = q

\* C19: whichever Storage objects (and asyncio locks) the callers use, the
\* row an allocation returns was Unused in the committed table when the
\* allocation committed, and its value differs from every value returned
\* since the last reset or clear.
C19_NoDoubleIssueAcrossInstances ==
    [][\A p \in Procs :
          (Step(p, "alloc_commit", "alloc_ret") /\ loc'[p].ret # None) =>
              /\ \E r \in Unused(codes) :
                    r.id = loc[p].code_row.id /\ r.code = loc'[p].ret
              /\ \A i \in 1..Len(issued) : issued[i].code # loc'[p].ret]_vars

\* Two callers on two Storage objects were inside their asyncio locks at
\* the same time and each got a code.
C19_Witness ==
    /\ inst[1] # inst[2]
    /\ lock[inst[1]] = 1 /\ lock[inst[2]] = 2
    /\ pc[1] = "alloc_ret" /\ pc[2] = "alloc_ret"
    /\ Len(issued) = 2

\* C18: the second number reset_all_codes returns is the number of rows
\* the store held when the reset committed.
C18_UnusedAfterIsRowsAtCommit ==
    \A p \in Procs :
        pc[p] = "reset_ret" => loc[p].ret[2] = loc[p].rows_at_commit

\* Number of Used rows of `rows` stamped with user u.
UsedRowsOf(rows, u) ==
    Cardinality({r \in RowsOf(rows) : r.is_used = 1 /\ r.used_by = u})

\* The count a usage report on (rows, us) shows for user u, 0 if none.
ReportedCount(rows, us, u) ==
    LET g == {x \in Groups(Stamped(rows), us) : x.user_id = u}
    IN  IF g = {} THEN 0 ELSE (CHOOSE x \in g : TRUE).cnt

\* C13: what usage_counts_with_names fetches has exactly one entry per user
\* id stamped on at least one Used row, whose count is the number of Used
\* rows stamped with that id, in order of non-increasing count, with the
\* names of the user's registry row, or empty names when the user has none;
\* and a committed allocation by u raises the count reported for u by 1 and
\* no other.
C13_UsageReportIsExact ==
    [][/\ \A p \in Procs :
            (ev[p].stage = "counts_total" /\ ev'[p].stage = "counts_today") =>
                LET res == ev'[p].report.counts_total
                    N == Len(res)
                IN  /\ {res[i].user_id : i \in 1..N}
                          = {u \in Users : UsedRowsOf(codes, u) > 0}
                    /\ \A i, j \in 1..N : i # j => res[i].user_id # res[j].user_id
                    /\ \A i \in 1..N : res[i].cnt = UsedRowsOf(codes, res[i].user_id)
                    /\ \A i, j \in 1..N : i < j => res[i].cnt >= res[j].cnt
                    /\ \A i \in 1..N :
                          IF res[i].user_id \in DOMAIN users
                          THEN /\ res[i].display_name = users[res[i].user_id].display_name
                               /\ res[i].username = users[res[i].user_id].username
                          ELSE res[i].display_name = None /\ res[i].username = None
       /\ \A p \in Procs :
            (Step(p, "alloc_commit", "alloc_ret") /\ loc'[p].ret # None) =>
                \A u \in Users :
                    ReportedCount(codes', users', u)
                        = ReportedCount(codes, users, u) + (IF u = loc[p].by THEN 1 ELSE 0)]_vars

\* /yongliang has fetched a report of two users, the first with two codes
\* and no registry row, the second with one code and a registry row.
C13_Witness ==
    \E p \in Procs :
        LET res == ev[p].report.counts_total
        IN  /\ ev[p].stage = "counts_today"
            /\ Len(res) = 2
            /\ res[1].cnt = 2 /\ res[1].display_name = None
            /\ res[2].cnt = 1 /\ res[2].display_name # None
            /\ Len(issued) = 1

\* Sum of the counts of a fetched report.
RECURSIVE SumCnt(_)
SumCnt(res) == IF res = <<>> THEN 0 ELSE Head(res).cnt + SumCnt(Tail(res))

\* C20: in the reply of cmd_usage the cumulative total is the sum of the
\* per-admin cumulative counts, and today's total the sum of today's
\* per-admin counts.
C20_UsageTotalsAddUp ==
    \A p \in Procs :
        (ev[p].handler = "cmd_usage" /\ ev[p].reply = "usage") =>
            /\ ev[p].report.grand_total = SumCnt(ev[p].report.counts_total)
            /\ ev[p].report.grand_today = SumCnt(ev[p].report.counts_today)

\* p commits its write transaction in this step.
Commits(p) ==
    \/ Step(p, "ins_exec", "ins_count") /\ txn[p] # NoTxn
    \/ Step(p, "alloc_commit", "alloc_ret")
    \/ Step(p, "reset_commit", "reset_after")
    \/ Step(p, "clear_commit", "clear_ret")

\* C14: a call of insert_codes, get_and_mark_next_unused, reset_all_codes or
\* clear_all_codes that ends with a storage error has changed nothing in
\* the committed table; and the committed table changes only by the commit
\* of one call, which publishes the whole batch of an insert and the whole
\* of a reset.
C14_AllOrNothing ==
    [][/\ \A p \in Procs : pc'[p] = "raised" => ~loc'[p].wrote
       /\ codes' # codes =>
            \E p \in Procs :
                /\ Commits(p)
                /\ pc[p] = "ins_exec" =>
                      \A i \in 1..Len(loc[p].unique_codes) :
                          \E r \in RowsOf(codes') : r.code = loc[p].unique_codes[i]
                /\ pc[p] = "reset_commit" => CountUsed(codes') = 0]_vars

\* C15: a process between two calls holds neither an asyncio.Lock nor a
\* write transaction, and every started call returns to its caller, with a
\* result or with a storage error.
C15_CallsComplete ==
    /\ [](\A p \in Procs :
            pc[p] = "idle" =>
                /\ \A s \in Instances : lock[s] # p
                /\ dbWriter # p
                /\ txn[p] = NoTxn)
    /\ \A p \in Procs : (pc[p] # "idle") ~> (pc[p] = "idle")

\* An allocation failed while it held the asyncio.Lock and the write
\* transaction, another caller waits for the lock.
C15_Witness ==
    \E p, q \in Procs :
        /\ pc[p] = "raised"
        /\ loc[p].code_row # NoRow
        /\ lock[inst[p]] = p
        /\ pc[q] \in {"alloc_lock", "reset_lock", "clear_lock"}

\* C21: in every committed table an Unused row has used_by and used_at
\* empty and count_unused() + total_used_count() is the number of rows; the
\* commit of an allocation that returns a code turns exactly one row from
\* Unused to Used, leaves every other row as it was and keeps the number of
\* rows, and the commit of one that returns None changes nothing.
C21_StatusPartition ==
    [][/\ \A r \in RowsOf(codes') :
            r.is_used = 0 => (r.used_by = NULL /\ r.used_at = NULL)
       /\ CountUnused(codes') + TotalUsedCount(codes') = Len(codes')
       /\ \A p \in Procs :
            Step(p, "alloc_commit", "alloc_ret") =>
                IF loc'[p].ret = None
                THEN codes' = codes
                ELSE /\ Len(codes') = Len(codes)
                     /\ \E i \in 1..Len(codes) :
                           /\ codes[i].is_used = 0 /\ codes'[i].is_used = 1
                           /\ codes'[i].id = codes[i].id /\ codes'[i].code = codes[i].code
                           /\ \A j \in 1..Len(codes) : j # i => codes'[j] = codes[j]
                     /\ CountUnused(codes') = CountUnused(codes) - 1
                     /\ TotalUsedCount(codes') = TotalUsedCount(codes) + 1]_vars

\* An allocation has just turned the first of two rows Used; the second
\* is Unused.
C21_Witness ==
    \E p \in Procs :
        /\ pc[p] = "alloc_ret"
        /\ loc[p].ret # None
        /\ Len(issued) = 1
        /\ Len(codes) = 2
        /\ CountUnused(codes) = 1
        /\ TotalUsedCount(codes) = 1
        /\ loc[p].wrote
        /\ codes[1].is_used = 1 /\ codes[1].code = loc[p].ret
        /\ codes[2].is_used = 0 /\ codes[2].used_by = NULL
====
